---- MODULE Spec2Model ----
(***************************************************************************)
(* Model of goldy (src/goldy.go): an in-memory set of fixture files that   *)
(* is compared with, or written to, a directory on disk.                   *)
(*                                                                         *)
(* A Go string is a sequence of one-character strings, a []byte a sequence *)
(* of small integers (the nil slice is the empty sequence: it has length 0 *)
(* and bytes.Equal does not tell it from an empty slice).                  *)
(***************************************************************************)
EXTENDS Integers, Sequences, FiniteSets, TLC

VARIABLES
    fixtures,          \* gf.Fixtures: path -> content
    ignoreUnexpected,  \* gf.IgnoreUnexpected
    files,             \* disk: path of a non-directory entry -> [data, err]
    dirs,              \* disk: set of existing directories
    last,              \* the last call: its arguments, results and disk accesses
    configExclude,     \* c.Exclude of the Config the fixtures come from
    formal,            \* flag.CommandLine.formal: name -> times a flag was stored
    aborted,           \* the process has panicked or died of a fatal error
    callers            \* the goroutines that call FlagConfig

flagState == <<formal, aborted, callers>>

vars == <<fixtures, ignoreUnexpected, files, dirs, last, configExclude, flagState>>

----------------------------------------------------------------------------
(* Bounds *)

MaxAdds == 2           \* number of fixtures held in memory
MaxFiles == 2          \* number of files on disk before the test runs
MaxGoroutines == 2     \* number of goroutines that call FlagConfig
MaxCalls == 2          \* number of calls of FlagConfig by one goroutine

----------------------------------------------------------------------------
(* Strings *)

Code(c) ==
    CASE c = "," -> 44 [] c = "." -> 46 [] c = "/" -> 47
      [] c = "a" -> 97 [] c = "c" -> 99 [] c = "d" -> 100
      [] c = "h" -> 104 [] c = "u" -> 117 [] c = "x" -> 120
      [] c = "z" -> 122

RECURSIVE StrLess(_, _)
\* s < t on Go strings: byte-wise lexicographic order
StrLess(s, t) ==
    IF t = <<>> THEN FALSE
    ELSE IF s = <<>> THEN TRUE
    ELSE IF Head(s) = Head(t) THEN StrLess(Tail(s), Tail(t))
    ELSE Code(Head(s)) < Code(Head(t))

HasPrefix(s, prefix) ==
    /\ Len(s) >= Len(prefix)
    /\ SubSeq(s, 1, Len(prefix)) = prefix

RECURSIVE Split(_, _)
\* strings.Split(s, sep) for a one-character sep
Split(s, sep) ==
    IF \A i \in 1..Len(s) : s[i] # sep THEN <<s>>
    ELSE LET i == CHOOSE k \in 1..Len(s) :
                      s[k] = sep /\ \A j \in 1..(k - 1) : s[j] # sep
         IN  <<SubSeq(s, 1, i - 1)>> \o Split(SubSeq(s, i + 1, Len(s)), sep)

RECURSIVE StrJoin(_, _)
\* strings.Join(elems, sep)
StrJoin(elems, sep) ==
    IF elems = <<>> THEN <<>>
    ELSE IF Len(elems) = 1 THEN elems[1]
    ELSE elems[1] \o sep \o StrJoin(Tail(elems), sep)

----------------------------------------------------------------------------
(* path/filepath *)

Dot == <<".">>
DotDot == <<".", ".">>
Slash == <<"/">>

RECURSIVE CleanElems(_, _, _)
\* the elements filepath.Clean keeps: "" and "." are dropped, ".." removes
\* the element before it
CleanElems(elems, out, rooted) ==
    IF elems = <<>> THEN out
    ELSE LET e == Head(elems)
             rest == Tail(elems)
         IN  IF e = <<>> \/ e = Dot THEN CleanElems(rest, out, rooted)
             ELSE IF e = DotDot
             THEN IF out # <<>> /\ out[Len(out)] # DotDot
                  THEN CleanElems(rest, SubSeq(out, 1, Len(out) - 1), rooted)
                  ELSE IF rooted THEN CleanElems(rest, out, rooted)
                  ELSE CleanElems(rest, Append(out, e), rooted)
             ELSE CleanElems(rest, Append(out, e), rooted)

Clean(path) ==
    LET rooted == path # <<>> /\ path[1] = "/"
        body == StrJoin(CleanElems(Split(path, "/"), <<>>, rooted), Slash)
    IN  IF rooted THEN Slash \o body
        ELSE IF body = <<>> THEN Dot
        ELSE body

\* filepath.Join: empty elements are ignored, the rest joined and cleaned
Join(elems) ==
    LET nonEmpty == SelectSeq(elems, LAMBDA e : e # <<>>)
    IN  IF nonEmpty = <<>> THEN <<>> ELSE Clean(StrJoin(nonEmpty, Slash))

RECURSIVE TrimSlashes(_)
TrimSlashes(path) ==
    IF Len(path) > 0 /\ path[Len(path)] = "/"
    THEN TrimSlashes(SubSeq(path, 1, Len(path) - 1))
    ELSE path

\* filepath.Base
Base(path) ==
    IF path = <<>> THEN Dot
    ELSE LET p == TrimSlashes(path)
             elems == Split(p, "/")
         IN  IF p = <<>> THEN Slash ELSE elems[Len(elems)]

\* filepath.Dir
DirOf(path) ==
    LET elems == Split(path, "/")
        upto == SubSeq(elems, 1, Len(elems) - 1)
    IN  IF Len(elems) = 1 THEN Dot
        ELSE IF path[1] = "/" /\ \A i \in 1..Len(upto) : upto[i] = <<>>
        THEN Slash
        ELSE Clean(StrJoin(upto, Slash))

IsDotfile(path) == HasPrefix(Base(path), Dot)

\* calls a func(path string) bool held in an Exclude field: IsDotfile, a
\* function that returns false for every path, or one that returns true
\* for the files named "a"
Exclude(fn, path) ==
    CASE fn = "IsDotfile" -> IsDotfile(path)
      [] fn = "ExcludeNone" -> FALSE
      [] fn = "ExcludeA" -> Base(path) = <<"a">>

----------------------------------------------------------------------------
(* Maps (Go map[string][]byte) and values *)

NilBytes == <<>>

EmptyMap == [p \in {} |-> NilBytes]

Put(f, k, v) == [x \in (DOMAIN f) \cup {k} |-> IF x = k THEN v ELSE f[x]]

Delete(f, k) == [x \in (DOMAIN f) \ {k} |-> f[x]]

\* v, ok := f[k]: the zero value when k is absent
MapGet(f, k) == IF k \in DOMAIN f THEN f[k] ELSE NilBytes

RECURSIVE SetToSeq(_)
\* the keys of a map in the order a range loop happens to visit them
SetToSeq(S) ==
    IF S = {} THEN <<>>
    ELSE LET x == CHOOSE y \in S : TRUE
         IN  <<x>> \o SetToSeq(S \ {x})

BytesEqual(x, y) == x = y

----------------------------------------------------------------------------
(* Flags *)

FlagUpdate == <<"u", "p", "d", "a", "t", "e">>
FlagDiff == <<"d", "i", "f", "f">>
Comma == <<",">>

RECURSIVE parseTokens(_, _)
parseTokens(tokens, r) ==
    IF tokens = <<>> THEN r
    ELSE LET f == Head(tokens)
         IN  IF f = FlagUpdate
             THEN parseTokens(Tail(tokens), [r EXCEPT !.update = TRUE])
             ELSE IF f = FlagDiff
             THEN parseTokens(Tail(tokens), [r EXCEPT !.diff = TRUE])
             ELSE [update |-> FALSE, diff |-> FALSE, err |-> "unknown flag"]

parseFlags(flags) ==
    LET r == [update |-> FALSE, diff |-> FALSE, err |-> "nil"]
    IN  IF flags = <<>> THEN r
        ELSE parseTokens(Split(flags, ","), r)

----------------------------------------------------------------------------
(* The file system: files F (path -> [data, err]) and directories D.       *)
(* err is the error of the operations the entry refuses: "ok" (none),      *)
(* "EACCES" (a file without permissions: no read, no write), "ENOENT" (a   *)
(* symbolic link whose target is gone: no read) or "EPERM" (an immutable   *)
(* file: no write, no remove).                                             *)

\* ioutil.ReadFile fails on the entry e
ReadFails(e) == e.err \in {"EACCES", "ENOENT"}

IsDir(p, D) == p = Dot \/ p \in D

Exists(p, F, D) == p \in DOMAIN F \/ IsDir(p, D)

Children(p, F, D) == {q \in (DOMAIN F) \cup D : q # p /\ DirOf(q) = p}

RECURSIVE Walk(_, _, _)
RECURSIVE WalkAll(_, _, _)
\* filepath.Walk: the paths handed to the walk function, a directory before
\* its entries, the entries of a directory in the order of their names
Walk(p, F, D) ==
    IF p \in DOMAIN F THEN <<p>>
    ELSE <<p>> \o WalkAll(SortSeq(SetToSeq(Children(p, F, D)),
                                  LAMBDA x, y : StrLess(Base(x), Base(y))),
                          F, D)

WalkAll(ps, F, D) ==
    IF ps = <<>> THEN <<>>
    ELSE Walk(Head(ps), F, D) \o WalkAll(Tail(ps), F, D)

\* one access to the disk and whether it succeeded
IoOp(op, path, ok) == [op |-> op, path |-> path, ok |-> ok]

RECURSIVE LoadWalk(_, _, _, _, _)
\* the walk function of Load, applied to the visited paths until it
\* returns an error
LoadWalk(ps, exclude, F, D, acc) ==
    IF ps = <<>> THEN acc
    ELSE LET path == Head(ps)
         IN  IF IsDir(path, D) \/ Exclude(exclude, path)
             THEN LoadWalk(Tail(ps), exclude, F, D, acc)
             ELSE IF ReadFails(F[path])
             THEN [acc EXCEPT !.err = F[path].err,
                              !.io = Append(@, IoOp("read", path, FALSE))]
             ELSE LoadWalk(Tail(ps), exclude, F, D,
                           [acc EXCEPT !.s = Put(@, path, F[path].data),
                                       !.io = Append(@, IoOp("read", path, TRUE))])

Load(path, exclude, F, D) ==
    LET start == [s |-> EmptyMap, err |-> "nil", io |-> <<>>]
    IN  IF ~Exists(path, F, D)
        THEN [start EXCEPT !.err = "ENOENT",
                           !.io = <<IoOp("lstat", path, FALSE)>>]
        ELSE LoadWalk(Walk(path, F, D), exclude, F, D,
                      [start EXCEPT !.io = <<IoOp("lstat", path, TRUE)>>])

\* os.IsNotExist
IsNotExist(err) == err = "ENOENT"

RECURSIVE MkdirAll(_, _, _)
\* os.MkdirAll: [ok, D]
MkdirAll(dir, F, D) ==
    IF IsDir(dir, D) THEN [ok |-> TRUE, D |-> D]
    ELSE IF dir \in DOMAIN F THEN [ok |-> FALSE, D |-> D]
    ELSE LET up == MkdirAll(DirOf(dir), F, D)
         IN  IF up.ok THEN [ok |-> TRUE, D |-> up.D \cup {dir}] ELSE up

\* ioutil.WriteFile into an existing directory: [ok, F]
WriteFile(path, data, F, D) ==
    IF IsDir(path, D) \/ ~IsDir(DirOf(path), D)
       \/ (path \in DOMAIN F /\ F[path].err \in {"EACCES", "EPERM"})
    THEN [ok |-> FALSE, F |-> F]
    ELSE [ok |-> TRUE, F |-> Put(F, path, [data |-> data, err |-> "ok"])]

\* os.Remove: [ok, F, D]
Remove(path, F, D) ==
    IF path \in DOMAIN F /\ F[path].err = "EPERM"
    THEN [ok |-> FALSE, F |-> F, D |-> D]
    ELSE IF path \in DOMAIN F THEN [ok |-> TRUE, F |-> Delete(F, path), D |-> D]
    ELSE IF path \in D /\ Children(path, F, D) = {}
    THEN [ok |-> TRUE, F |-> F, D |-> D \ {path}]
    ELSE [ok |-> FALSE, F |-> F, D |-> D]

----------------------------------------------------------------------------
(* Fixtures *)

DiffMissing == "missing"
DiffUnexpected == "added"
DiffChanged == "changed"

FileDiff(path, kind, a, b) == [Path |-> path, Kind |-> kind, A |-> a, B |-> b]

\* Fixtures.Add without the test for an existing key
FixturesAdd_Overwrite(f, data, path) ==
    [panic |-> FALSE, f |-> Put(f, Join(path), data)]

\* Fixtures.Add: [panic, f]
FixturesAdd(f, data, path) ==
    LET key == Join(path)
    IN  IF key \in DOMAIN f THEN [panic |-> TRUE, f |-> f]
        ELSE [panic |-> FALSE, f |-> Put(f, key, data)]

RECURSIVE DiffPassA(_, _, _, _)
\* first loop of Fixtures.Diff, over the paths of a
DiffPassA(aPaths, a, b, diff) ==
    IF aPaths = <<>> THEN diff
    ELSE LET aPath == Head(aPaths)
             aData == a[aPath]
         IN  IF aPath \notin DOMAIN b
             THEN DiffPassA(Tail(aPaths), a, b,
                      Append(diff, FileDiff(aPath, DiffMissing, NilBytes, aData)))
             ELSE IF ~BytesEqual(aData, b[aPath])
             THEN DiffPassA(Tail(aPaths), a, b,
                      Append(diff, FileDiff(aPath, DiffChanged, b[aPath], aData)))
             ELSE DiffPassA(Tail(aPaths), a, b, diff)

RECURSIVE DiffPassB(_, _, _, _)
\* second loop of Fixtures.Diff, over the paths of b; bData is read from a
DiffPassB(bPaths, a, b, diff) ==
    IF bPaths = <<>> THEN diff
    ELSE LET bPath == Head(bPaths)
             bData == MapGet(a, bPath)
         IN  IF bPath \notin DOMAIN a
             THEN DiffPassB(Tail(bPaths), a, b,
                      Append(diff, FileDiff(bPath, DiffUnexpected, bData, NilBytes)))
             ELSE DiffPassB(Tail(bPaths), a, b, diff)

\* Fixtures.Diff without its second loop
FixturesDiff_NoSecondPass(a, b) ==
    SortSeq(DiffPassA(SetToSeq(DOMAIN a), a, b, <<>>),
            LAMBDA x, y : StrLess(x.Path, y.Path))

\* Fixtures.Diff: a.Diff(b)
FixturesDiff(a, b) ==
    LET pass1 == DiffPassA(SetToSeq(DOMAIN a), a, b, <<>>)
        pass2 == DiffPassB(SetToSeq(DOMAIN b), a, b, pass1)
    IN  SortSeq(pass2, LAMBDA x, y : StrLess(x.Path, y.Path))

\* Fixtures.Paths
Paths(f) == SortSeq(SetToSeq(DOMAIN f), StrLess)

----------------------------------------------------------------------------
(* GoldenFixtures *)

CDir == <<"d">>               \* c.Dir of the Config the fixtures come from
Dir == Join(<<CDir>>)         \* gf.Dir, as set by c.GoldenFixtures()
GfExclude == "IsDotfile"      \* gf.Exclude, as set by c.GoldenFixtures()
CExclude == "IsDotfile"       \* c.Exclude, as set by WithDefaults

\* the loop of GoldenFixtures.Diff that builds newDiff, without its test of
\* d.Kind
FilterUnexpected_KeepsAll(diff, newDiff) == newDiff \o diff

RECURSIVE FilterUnexpected(_, _)
\* the loop of GoldenFixtures.Diff that builds newDiff
FilterUnexpected(diff, newDiff) ==
    IF diff = <<>> THEN newDiff
    ELSE IF Head(diff).Kind # DiffUnexpected
    THEN FilterUnexpected(Tail(diff), Append(newDiff, Head(diff)))
    ELSE FilterUnexpected(Tail(diff), newDiff)

\* GoldenFixtures.Diff with the test of IgnoreUnexpected inverted
GoldenFixturesDiff_Inverted(fx, ignore, F, D) ==
    LET load == Load(Dir, GfExclude, F, D)
        want == load.s
        diff == FixturesDiff(fx, want)
    IN  IF load.err # "nil" /\ ~IsNotExist(load.err)
        THEN [diff |-> <<>>, err |-> "failed to load golden fixtures",
              want |-> want, raw |-> <<>>, io |-> load.io]
        ELSE [diff |-> IF ignore THEN diff ELSE FilterUnexpected(diff, <<>>),
              err |-> "nil", want |-> want, raw |-> diff, io |-> load.io]

\* GoldenFixtures.Diff: [diff, err] and, for the record, the loaded set,
\* the unfiltered diff and the disk accesses
GoldenFixturesDiff(fx, ignore, F, D) ==
    LET load == Load(Dir, GfExclude, F, D)
        want == load.s
        diff == FixturesDiff(fx, want)
    IN  IF load.err # "nil" /\ ~IsNotExist(load.err)
        THEN [diff |-> <<>>, err |-> "failed to load golden fixtures",
              want |-> want, raw |-> <<>>, io |-> load.io]
        ELSE [diff |-> IF ~ignore THEN diff ELSE FilterUnexpected(diff, <<>>),
              err |-> "nil", want |-> want, raw |-> diff, io |-> load.io]

Msg(text, path) == [text |-> text, path |-> path]

\* one pass of the loop of GoldenFixtures.update for an Unexpected entry,
\* rm the outcome of os.Remove
updateRemoved(acc, d, rm) ==
    [F |-> rm.F, D |-> rm.D,
     io |-> Append(acc.io, IoOp("remove", d.Path, rm.ok)),
     msg |-> IF rm.ok THEN acc.msg
             ELSE Append(acc.msg, Msg("could not remove", d.Path))]

\* one pass for a Missing or Changed entry whose directory exists, wr the
\* outcome of ioutil.WriteFile
updateWritten(acc, d, dir, mk, wr) ==
    [F |-> wr.F, D |-> mk.D,
     io |-> acc.io \o <<IoOp("mkdir", dir, TRUE), IoOp("write", d.Path, wr.ok)>>,
     msg |-> IF wr.ok THEN acc.msg
             ELSE Append(acc.msg, Msg("could not write", d.Path))]

\* one pass for a Missing or Changed entry, mk the outcome of os.MkdirAll
updateMkdir(acc, d, dir, mk, data) ==
    IF ~mk.ok
    THEN [acc EXCEPT !.io = Append(@, IoOp("mkdir", dir, FALSE)),
                     !.msg = Append(@, Msg("could not mkdir", dir))]
    ELSE updateWritten(acc, d, dir, mk, WriteFile(d.Path, data, acc.F, mk.D))

\* one pass of the loop of GoldenFixtures.update: acc is [F, D, msg, io]
updateEntry(acc, d, dir, fx) ==
    IF d.Kind = DiffUnexpected
    THEN updateRemoved(acc, d, Remove(d.Path, acc.F, acc.D))
    ELSE updateMkdir(acc, d, dir, MkdirAll(dir, acc.F, acc.D), MapGet(fx, d.Path))

RECURSIVE updateLoop_StopsAtFailure(_, _, _)
\* the loop of GoldenFixtures.update, left at the first entry that fails
updateLoop_StopsAtFailure(diff, fx, acc) ==
    IF diff = <<>> \/ acc.msg # <<>> THEN acc
    ELSE updateLoop_StopsAtFailure(Tail(diff), fx,
             updateEntry(acc, Head(diff), DirOf(Head(diff).Path), fx))

RECURSIVE updateLoop(_, _, _)
\* the loop of GoldenFixtures.update
updateLoop(diff, fx, acc) ==
    IF diff = <<>> THEN acc
    ELSE updateLoop(Tail(diff), fx,
                    updateEntry(acc, Head(diff), DirOf(Head(diff).Path), fx))

\* the return of GoldenFixtures.update, r the outcome of its loop
updateReturn(r) ==
    [err |-> IF Len(r.msg) > 0 THEN "update" ELSE "nil",
     msg |-> r.msg, F |-> r.F, D |-> r.D, io |-> r.io]

\* GoldenFixtures.update: [err, msg, F, D, io]
update(diff, fx, F, D) ==
    updateReturn(updateLoop(diff, fx, [F |-> F, D |-> D, msg |-> <<>>, io |-> <<>>]))

RECURSIVE compareLoop(_, _, _)
compareLoop(diff, diffFlag, msg) ==
    IF diff = <<>> THEN msg
    ELSE LET d == Head(diff)
             line == CASE d.Kind = DiffUnexpected -> Msg("unexpected file", d.Path)
                       [] d.Kind = DiffMissing -> Msg("missing file", d.Path)
                       [] d.Kind = DiffChanged -> Msg("changed file", d.Path)
             lines == IF d.Kind = DiffChanged /\ diffFlag
                      THEN <<line, Msg("textDiff", d.Path)>> ELSE <<line>>
         IN  compareLoop(Tail(diff), diffFlag, msg \o lines)

\* GoldenFixtures.compare: [err, msg]
compare(diff, diffFlag) ==
    IF Len(diff) = 0 THEN [err |-> "nil", msg |-> <<>>]
    ELSE [err |-> "compare", msg |-> compareLoop(diff, diffFlag, <<>>)]

\* what Test returns when it stops before update and compare
TestStopped(err, df, F, D) ==
    [err |-> err, msg |-> <<>>, F |-> F, D |-> D, io |-> df.io,
     want |-> df.want, raw |-> <<>>, diff |-> <<>>]

\* what Test returns from update (res) or compare (res, the disk as it was)
TestReturn(res, df, F, D) ==
    [err |-> res.err, msg |-> res.msg, F |-> F, D |-> D, io |-> df.io \o res.io,
     want |-> df.want, raw |-> df.raw, diff |-> df.diff]

\* Test returns what update returned, with the disk as update left it
UpdateOutcome(up, df) == TestReturn(up, df, up.F, up.D)

\* Test returns what compare returned
CompareOutcome(cmp, df, F, D) ==
    TestReturn([err |-> cmp.err, msg |-> cmp.msg, io |-> <<>>], df, F, D)

\* GoldenFixtures.Test after gf.Diff() returned df
TestDiffed(flags, df, fx, F, D) ==
    IF df.err # "nil" THEN TestStopped(df.err, df, F, D)
    ELSE IF flags.update THEN UpdateOutcome(update(df.diff, fx, F, D), df)
    ELSE CompareOutcome(compare(df.diff, flags.diff), df, F, D)

\* GoldenFixtures.Test after parseFlags returned flags
TestParsed(flags, fx, ignore, F, D) ==
    IF flags.err # "nil"
    THEN TestStopped(flags.err, [io |-> <<>>, want |-> EmptyMap], F, D)
    ELSE TestDiffed(flags, GoldenFixturesDiff(fx, ignore, F, D), fx, F, D)

\* GoldenFixtures.Test with the error of parseFlags dropped
GoldenFixturesTest_FlagErrorDropped(flagStr, fx, ignore, F, D) ==
    TestDiffed(parseFlags(flagStr), GoldenFixturesDiff(fx, ignore, F, D), fx, F, D)

\* GoldenFixtures.Test: [err, msg, F, D, io, want, raw, diff]
GoldenFixturesTest(flagStr, fx, ignore, F, D) ==
    TestParsed(parseFlags(flagStr), fx, ignore, F, D)

\* Config.InputFixtures: [s, err, io], cExclude the value of c.Exclude
InputFixtures(path, cExclude, F, D) == Load(Join(<<CDir>> \o path), cExclude, F, D)

----------------------------------------------------------------------------
(* FlagConfig and flag.StringVar. FlagSet.Var looks the name up in the map *)
(* formal, panics ("flag redefined") when it is there and stores the flag   *)
(* otherwise; nothing orders the lookup and the store of one goroutine     *)
(* with those of another.                                                  *)

\* a goroutine outside FlagConfig
Idle == [pc |-> "idle", name |-> "", alreadythere |-> FALSE, calls |-> 0]

\* FlagSet.Var up to its test of alreadythere: the lookup in formal
VarLookup(c, name, fm) ==
    [c EXCEPT !.pc = "var", !.name = name, !.alreadythere = fm[name] > 0,
              !.calls = @ + 1]

\* FlagSet.Var from its test of alreadythere: [panic, formal]
VarStore(c, fm) ==
    IF c.alreadythere THEN [panic |-> TRUE, formal |-> fm]
    ELSE [panic |-> FALSE, formal |-> [fm EXCEPT ![c.name] = @ + 1]]

----------------------------------------------------------------------------
(* Inputs *)

\* the names given to FlagConfig
FlagNames == { "goldy", "update" }

Goroutines == 1..MaxGoroutines

\* file contents
Contents == { <<>>, <<1>> }

\* the path arguments given to Add
AddArgs ==
    { <<>>,
      << <<"a">> >>,
      << <<".", "h">> >>,
      << <<"c">>, <<"a">> >>,
      << <<"c", "/", "a">> >> }

\* the path arguments given to InputFixtures
InputArgs == { <<>>, << <<"z">> >> }

\* the values of gf.Flags
FlagStrings ==
    { <<>>,
      FlagUpdate,
      FlagDiff,
      FlagUpdate \o Comma \o <<"x">>,
      <<"x">> \o Comma \o FlagUpdate,
      FlagUpdate \o Comma \o FlagDiff }

\* the functions a Config is given as Exclude in place of the default
CustomExcludes == { "ExcludeNone", "ExcludeA" }

\* the files a fixture directory holds before the test runs
DiskPaths ==
    { <<"d", "/", "a">>, <<"d", "/", ".", "h">>, <<"d", "/", "c", "/", "a">> }

DiskDirs == { <<"d">>, <<"d", "/", "c">> }

Readable(data) == [data |-> data, err |-> "ok"]

\* a directory tree: every entry lies in an existing directory
WellFormed(F, D) ==
    /\ (DOMAIN F) \cap D = {}
    /\ \A p \in (DOMAIN F) \cup D : IsDir(DirOf(p), D)

----------------------------------------------------------------------------
(* State machine *)

NoCall ==
    [call |-> "none", prev |-> "none", flags |-> <<>>, segs |-> <<>>,
     data |-> NilBytes, panicked |-> FALSE,
     err |-> "nil", msg |-> <<>>, want |-> EmptyMap,
     raw |-> <<>>, diff |-> <<>>, io |-> <<>>]

\* what a file can be: readable with some content, failing every read with
\* one of errs (its content is then never seen), or immutable with some
\* content
Entries(errs) ==
    {Readable(c) : c \in Contents}
        \cup {[data |-> NilBytes, err |-> e] : e \in errs \ {"EPERM"}}
        \cup {[data |-> c, err |-> "EPERM"] : c \in Contents, e \in errs \cap {"EPERM"}}

\* what the call before the next one was: "updated" for a Test in update
\* mode that returned no error
Outcome ==
    IF last.call = "Test" /\ last.err = "nil" /\ parseFlags(last.flags).update
    THEN "updated"
    ELSE "other"

\* no flag is registered and no goroutine is in FlagConfig
NoFlags ==
    /\ formal = [n \in FlagNames |-> 0]
    /\ aborted = FALSE
    /\ callers = [g \in Goroutines |-> Idle]

InitDisk(errs) ==
    \/ /\ dirs \in SUBSET DiskDirs
       /\ \E S \in SUBSET DiskPaths :
              /\ Cardinality(S) <= MaxFiles
              /\ files \in [S -> Entries(errs)]
       /\ WellFormed(files, dirs)
    \/ /\ dirs = {}
       /\ \E e \in Entries(errs) : files = [p \in {Dir} |-> e]

Init ==
    /\ fixtures = EmptyMap
    /\ ignoreUnexpected \in BOOLEAN
    /\ InitDisk({})
    /\ last = NoCall
    /\ configExclude = CExclude
    /\ NoFlags

\* gf.Add(data, path...)
Add ==
    \E data \in Contents, path \in AddArgs :
        LET r == FixturesAdd(fixtures, data, <<Dir>> \o path)
        IN  /\ Cardinality(DOMAIN r.f) <= MaxAdds
            /\ fixtures' = r.f
            /\ last' = [NoCall EXCEPT !.call = "Add", !.prev = Outcome,
                                      !.segs = path, !.data = data,
                                      !.panicked = r.panic]
            /\ UNCHANGED <<ignoreUnexpected, files, dirs, configExclude, flagState>>

\* gf.Diff()
Diff ==
    LET r == GoldenFixturesDiff(fixtures, ignoreUnexpected, files, dirs)
    IN  /\ last' = [NoCall EXCEPT !.call = "Diff", !.prev = Outcome,
                                  !.err = r.err,
                                  !.want = r.want, !.raw = r.raw,
                                  !.diff = r.diff, !.io = r.io]
        /\ UNCHANGED <<fixtures, ignoreUnexpected, files, dirs, configExclude, flagState>>

\* the effect of a Test that returned r
Tested(flags, r) ==
    /\ files' = r.F
    /\ dirs' = r.D
    /\ last' = [NoCall EXCEPT !.call = "Test", !.prev = Outcome,
                              !.flags = flags,
                              !.err = r.err, !.msg = r.msg,
                              !.want = r.want, !.raw = r.raw,
                              !.diff = r.diff, !.io = r.io]
    /\ UNCHANGED <<fixtures, ignoreUnexpected, configExclude, flagState>>

\* gf.Flags = flags; gf.Test()
Test ==
    \E flags \in FlagStrings :
        Tested(flags, GoldenFixturesTest(flags, fixtures, ignoreUnexpected, files, dirs))

\* c.InputFixtures(path...)
Input ==
    \E path \in InputArgs :
        LET r == InputFixtures(path, configExclude, files, dirs)
        IN  /\ last' = [NoCall EXCEPT !.call = "InputFixtures",
                                      !.prev = Outcome, !.segs = path,
                                      !.err = r.err, !.want = r.s, !.io = r.io]
            /\ UNCHANGED <<fixtures, ignoreUnexpected, files, dirs, configExclude, flagState>>

Next == Add \/ Diff \/ Test \/ Input

Spec == Init /\ [][Next]_vars

\* the same program on a disk where reading one entry may fail
InitFault ==
    /\ fixtures = EmptyMap
    /\ ignoreUnexpected \in BOOLEAN
    /\ InitDisk({"EACCES", "ENOENT"})
    /\ Cardinality({p \in DOMAIN files : files[p].err # "ok"}) = 1
    /\ last = NoCall
    /\ configExclude = CExclude
    /\ NoFlags

SpecFault == InitFault /\ [][Next]_vars

\* the same program on a disk where one file can be neither written nor
\* removed
InitReadOnly ==
    /\ fixtures = EmptyMap
    /\ ignoreUnexpected \in BOOLEAN
    /\ InitDisk({"EPERM"})
    /\ Cardinality({p \in DOMAIN files : files[p].err # "ok"}) = 1
    /\ last = NoCall
    /\ configExclude = CExclude
    /\ NoFlags

SpecReadOnly == InitReadOnly /\ [][Next]_vars

\* the same program with fixtures that come from a Config whose Exclude was
\* set by the caller
InitConfig ==
    /\ fixtures = EmptyMap
    /\ ignoreUnexpected \in BOOLEAN
    /\ InitDisk({})
    /\ last = NoCall
    /\ configExclude \in CustomExcludes
    /\ NoFlags

SpecConfig == InitConfig /\ [][Next]_vars

\* goroutine g calls FlagConfig(name) and gets as far as the lookup of name
FlagConfigCall(g) ==
    \E name \in FlagNames :
        /\ ~aborted
        /\ callers[g].pc = "idle"
        /\ callers[g].calls < MaxCalls
        /\ callers' = [callers EXCEPT ![g] = VarLookup(@, name, formal)]
        /\ UNCHANGED <<formal, aborted>>
        /\ UNCHANGED <<fixtures, ignoreUnexpected, files, dirs, last, configExclude>>

\* the effect of the rest of FlagConfig in goroutine g, r the outcome of
\* FlagSet.Var
FlagConfigReturned(g, r) ==
    /\ formal' = r.formal
    /\ aborted' = r.panic
    /\ callers' = [callers EXCEPT ![g].pc = IF r.panic THEN "panic" ELSE "idle"]
    /\ UNCHANGED <<fixtures, ignoreUnexpected, files, dirs, last, configExclude>>

\* goroutine g finishes FlagConfig: the flag is stored and &c returned, or
\* FlagSet.Var panics
FlagConfigReturn(g) ==
    /\ ~aborted
    /\ callers[g].pc = "var"
    /\ FlagConfigReturned(g, VarStore(callers[g], formal))

\* goroutine g uses the map formal while goroutine h does: a data race, which
\* the runtime may end with a fatal error
FlagConfigRace(g) ==
    /\ ~aborted
    /\ callers[g].pc = "var"
    /\ \E h \in Goroutines \ {g} : callers[h].pc = "var"
    /\ aborted' = TRUE
    /\ callers' = [callers EXCEPT ![g].pc = "fatal"]
    /\ UNCHANGED <<formal, fixtures, ignoreUnexpected, files, dirs, last, configExclude>>

NextFlag ==
    \E g \in Goroutines :
        FlagConfigCall(g) \/ FlagConfigReturn(g) \/ FlagConfigRace(g)

\* the initializers of a test binary: no fixtures yet, an empty disk
InitFlag ==
    /\ fixtures = EmptyMap
    /\ ignoreUnexpected = FALSE
    /\ files = [p \in {} |-> Readable(NilBytes)]
    /\ dirs = {}
    /\ last = NoCall
    /\ configExclude = CExclude
    /\ NoFlags

SpecFlag == InitFlag /\ [][NextFlag]_vars

TypeOK ==
    /\ WellFormed(files, dirs)
    /\ Cardinality(DOMAIN fixtures) <= MaxAdds

----------------------------------------------------------------------------
(* Vocabulary of the properties *)

Tokens(flags) == IF flags = <<>> THEN <<>> ELSE Split(flags, ",")

HasToken(flags, t) == \E i \in 1..Len(Tokens(flags)) : Tokens(flags)[i] = t

UnknownFlag(flags) ==
    \E i \in 1..Len(Tokens(flags)) : Tokens(flags)[i] \notin {FlagUpdate, FlagDiff}

CompareMode(flags) == ~UnknownFlag(flags) /\ ~HasToken(flags, FlagUpdate)

UpdateMode(flags) == ~UnknownFlag(flags) /\ HasToken(flags, FlagUpdate)

\* the last element of p starts with a dot
Excluded(p) ==
    \E i \in 1..Len(p) :
        /\ p[i] = "."
        /\ i = 1 \/ p[i - 1] = "/"
        /\ \A j \in i..Len(p) : p[j] # "/"

\* the last call computed a.Diff(b), a the in-memory set and b the loaded one
Diffed ==
    /\ last.call \in {"Diff", "Test"}
    /\ last.err \notin {"unknown flag", "failed to load golden fixtures"}

KindsAt(diff, p) == {diff[i].Kind : i \in {j \in 1..Len(diff) : diff[j].Path = p}}

CountAt(diff, p) == Cardinality({i \in 1..Len(diff) : diff[i].Path = p})

CountKind(diff, k) == Cardinality({i \in 1..Len(diff) : diff[i].Kind = k})

Modifies(io) == \E i \in 1..Len(io) : io[i].op \in {"write", "remove"}

----------------------------------------------------------------------------
(* C1 *)

PathMissing(p) == p \in DOMAIN fixtures /\ p \notin DOMAIN files

PathChanged(p) ==
    /\ p \in DOMAIN fixtures
    /\ p \in DOMAIN files
    /\ fixtures[p] # files[p].data

PathUnexpected(p) ==
    /\ p \in DOMAIN files
    /\ ~Excluded(p)
    /\ p \notin DOMAIN fixtures

Mismatch ==
    \E p \in (DOMAIN fixtures) \cup (DOMAIN files) :
        \/ PathMissing(p)
        \/ PathChanged(p)
        \/ PathUnexpected(p) /\ ~ignoreUnexpected

\* C1: Test in compare mode returns an error if and only if some path is
\* Missing (in memory, not on disk), Changed (in both, different bytes) or,
\* with IgnoreUnexpected false, Unexpected (on disk, not excluded, not in
\* memory).
C1_CompareFailsIffMismatch ==
    (last.call = "Test" /\ CompareMode(last.flags))
        => ((last.err # "nil") <=> Mismatch)

\* C1 for in-memory sets without excluded paths
C1_NoExcludedInMemory ==
    (/\ last.call = "Test"
     /\ CompareMode(last.flags)
     /\ \A p \in DOMAIN fixtures : ~Excluded(p))
        => ((last.err # "nil") <=> Mismatch)

----------------------------------------------------------------------------
(* C2 *)

AfterUpdate ==
    /\ last.call = "Diff" => last.err = "nil" /\ last.diff = <<>>
    /\ (last.call = "Test" /\ CompareMode(last.flags)) => last.err = "nil"
    /\ (last.call = "Test" /\ UpdateMode(last.flags))
           => last.err = "nil" /\ ~Modifies(last.io)

\* C2: once Test in update mode has returned no error, an immediately
\* following Diff() is empty, a following Test in compare mode returns no
\* error, and a following Test in update mode writes and removes nothing and
\* returns no error, whatever paths were added and whatever was on disk.
C2_UpdateIdempotent == last.prev = "updated" => AfterUpdate

\* C2 for in-memory sets without excluded paths
C2_NoExcludedInMemory ==
    (last.prev = "updated" /\ \A p \in DOMAIN fixtures : ~Excluded(p))
        => AfterUpdate

----------------------------------------------------------------------------
(* C3, C4 *)

\* the kind the path p has between the sets a and b, "" when it has none
KindOf(a, b, p) ==
    IF p \in DOMAIN a /\ p \notin DOMAIN b THEN DiffMissing
    ELSE IF p \notin DOMAIN a /\ p \in DOMAIN b THEN DiffUnexpected
    ELSE IF p \in DOMAIN a /\ p \in DOMAIN b /\ a[p] # b[p] THEN DiffChanged
    ELSE ""

\* C3: a.Diff(b) has exactly one entry, of the right kind, for every path
\* that is only in a (Missing), only in b (Unexpected) or in both with
\* different bytes (Changed), and no other entry; so a.Diff(a) is empty and
\* disjoint a, b give |a| Missing and |b| Unexpected entries, none Changed.
C3_DiffClassifies ==
    Diffed =>
        LET a == fixtures
            b == last.want
            diff == last.raw
            disjoint == (DOMAIN a) \cap (DOMAIN b) = {}
        IN  /\ \A i \in 1..Len(diff) : diff[i].Path \in (DOMAIN a) \cup (DOMAIN b)
            /\ \A p \in (DOMAIN a) \cup (DOMAIN b) :
                   IF KindOf(a, b, p) = "" THEN CountAt(diff, p) = 0
                   ELSE /\ CountAt(diff, p) = 1
                        /\ KindsAt(diff, p) = {KindOf(a, b, p)}
            /\ a = b => diff = <<>>
            /\ disjoint => /\ CountKind(diff, DiffMissing) = Cardinality(DOMAIN a)
                           /\ CountKind(diff, DiffUnexpected) = Cardinality(DOMAIN b)
                           /\ CountKind(diff, DiffChanged) = 0

\* a diff between sets that share one path and differ on another
C3_Witness ==
    /\ Diffed
    /\ CountKind(last.raw, DiffChanged) = 1
    /\ CountKind(last.raw, DiffUnexpected) = 1
    /\ Len(last.raw) = 2
    /\ Cardinality(DOMAIN fixtures) = 1

\* C4: every entry of a.Diff(other) carries the content of the sides where
\* the path exists: Missing has actual = a[path], Changed has expected =
\* other[path] and actual = a[path], Unexpected has expected = other[path].
C4_EntriesCarryContent ==
    Diffed =>
        \A i \in 1..Len(last.raw) :
            LET d == last.raw[i]
            IN  /\ d.Kind = DiffMissing => d.B = fixtures[d.Path]
                /\ d.Kind = DiffChanged =>
                       d.A = last.want[d.Path] /\ d.B = fixtures[d.Path]
                /\ d.Kind = DiffUnexpected => d.A = last.want[d.Path]

\* C4 without its last part
C4_MissingAndChanged ==
    Diffed =>
        \A i \in 1..Len(last.raw) :
            LET d == last.raw[i]
            IN  /\ d.Kind = DiffMissing => d.B = fixtures[d.Path]
                /\ d.Kind = DiffChanged =>
                       d.A = last.want[d.Path] /\ d.B = fixtures[d.Path]

----------------------------------------------------------------------------
(* C5 *)

\* C5: with IgnoreUnexpected, Diff() returns the unfiltered diff without
\* its Unexpected entries, the others unchanged and in the same order;
\* without it, the unfiltered diff.
C5_FilterRemovesExactlyUnexpected ==
    Diffed =>
        last.diff = IF ignoreUnexpected
                    THEN SelectSeq(last.raw, LAMBDA d : d.Kind # DiffUnexpected)
                    ELSE last.raw

\* Diff() with IgnoreUnexpected on a diff that has an Unexpected entry
\* between two others
C5_Witness ==
    /\ last.call = "Diff"
    /\ last.err = "nil"
    /\ ignoreUnexpected
    /\ Len(last.raw) = 3
    /\ last.raw[2].Kind = DiffUnexpected
    /\ Len(last.diff) = 2

----------------------------------------------------------------------------
(* C6, C7 *)

\* the directory the last call loaded
LoadedDir == IF last.call = "InputFixtures" THEN Join(<<CDir>> \o last.segs) ELSE Dir

Absent(dir) == dir \notin dirs /\ dir \notin DOMAIN files

\* C6: loading a directory that does not exist gives an empty fixture set
\* and no error, for golden fixtures (Diff) and for input fixtures
\* (InputFixtures) alike.
C6_AbsentDirLoadsEmpty ==
    (last.call \in {"Diff", "InputFixtures"} /\ Absent(LoadedDir))
        => last.err = "nil" /\ last.want = EmptyMap

\* C6 for golden fixtures only
C6_GoldenOnly ==
    (last.call = "Diff" /\ Absent(LoadedDir))
        => last.err = "nil" /\ last.want = EmptyMap /\ last.diff = last.raw

\* a read of a file inside the existing directory failed during the last call
ReadFailed == \E i \in 1..Len(last.io) : last.io[i].op = "read" /\ ~last.io[i].ok

\* C7: when loading the files on disk fails for another reason than the
\* directory being absent, Diff returns an error and no diff, and Test
\* returns that error and writes and removes nothing.
C7_LoadFailureSurfaces ==
    (last.call \in {"Diff", "Test"} /\ ReadFailed)
        => /\ last.err = "failed to load golden fixtures"
           /\ last.diff = <<>>
           /\ ~Modifies(last.io)

\* C7 for reads that fail for lack of permission
C7_OtherThanNotExist ==
    (/\ last.call \in {"Diff", "Test"}
     /\ \E i \in 1..Len(last.io) :
            /\ last.io[i].op = "read"
            /\ ~last.io[i].ok
            /\ last.io[i].path \in DOMAIN files
            /\ files[last.io[i].path].err = "EACCES")
        => /\ last.err = "failed to load golden fixtures"
           /\ last.diff = <<>>
           /\ ~Modifies(last.io)

----------------------------------------------------------------------------
(* C8 *)

\* C8: a file on disk that the exclusion predicate matches is never loaded,
\* never an Unexpected entry of Diff(), never makes Test in compare mode
\* fail, and is never removed or rewritten by Test in update mode.
C8_ExcludedFilesUntouched ==
    [][\A p \in DOMAIN files :
           (Excluded(p) /\ last'.call \in {"Diff", "Test"}) =>
               /\ p \notin DOMAIN last'.want
               /\ \A i \in 1..Len(last'.io) : last'.io[i].path # p
               /\ \A i \in 1..Len(last'.diff) :
                      ~(last'.diff[i].Path = p /\ last'.diff[i].Kind = DiffUnexpected)
               /\ (last'.call = "Test" /\ CompareMode(last'.flags)) =>
                      last'.err = GoldenFixturesTest(last'.flags, fixtures,
                                      ignoreUnexpected, Delete(files, p), dirs).err
               /\ p \in DOMAIN files'
               /\ files'[p] = files[p]]_vars

\* C8 without "rewritten": the file is not loaded, not Unexpected, does not
\* change the result of a comparison and keeps its content
C8_ExcludedFilesKept ==
    [][\A p \in DOMAIN files :
           (Excluded(p) /\ last'.call \in {"Diff", "Test"}) =>
               /\ p \notin DOMAIN last'.want
               /\ \A i \in 1..Len(last'.io) :
                      last'.io[i].path = p => last'.io[i].op = "write"
               /\ \A i \in 1..Len(last'.diff) :
                      ~(last'.diff[i].Path = p /\ last'.diff[i].Kind = DiffUnexpected)
               /\ (last'.call = "Test" /\ CompareMode(last'.flags)) =>
                      last'.err = GoldenFixturesTest(last'.flags, fixtures,
                                      ignoreUnexpected, Delete(files, p), dirs).err
               /\ p \in DOMAIN files'
               /\ (files'[p] # files[p] \/ \E i \in 1..Len(last'.io) : last'.io[i].path = p)
                      => p \in DOMAIN fixtures]_vars

----------------------------------------------------------------------------
(* C9 *)

\* C9: with an unrecognized token anywhere in Flags, Test returns an
\* "unknown flag" error before any disk access: the directory is neither
\* read nor modified.
C9_UnknownFlagBeforeDisk ==
    [][(last'.call = "Test" /\ UnknownFlag(last'.flags)) =>
           /\ last'.err = "unknown flag"
           /\ last'.io = <<>>
           /\ files' = files
           /\ dirs' = dirs]_vars

\* Test with an unknown token next to "update", with fixtures to write
C9_Witness ==
    /\ last.call = "Test"
    /\ last.flags = FlagUpdate \o Comma \o <<"x">>
    /\ last.err = "unknown flag"
    /\ \E p \in DOMAIN fixtures : p \notin DOMAIN files

----------------------------------------------------------------------------
(* C10 *)

RECURSIVE Elements(_)
\* the path elements a list of segments names
Elements(segs) ==
    IF segs = <<>> THEN <<>>
    ELSE SelectSeq(Split(Head(segs), "/"), LAMBDA e : e # <<>>) \o Elements(Tail(segs))

SamePath(key, segs) == Split(key, "/") = Elements(<<CDir>> \o segs)

\* C10: Add of a path that is already present panics and leaves the set
\* unchanged, segment lists that join to the same path collide, and every
\* key keeps the content of the first, and only successful, Add for it.
C10_AddPanicsOnDuplicate ==
    [][/\ \A k \in DOMAIN fixtures : k \in DOMAIN fixtures' /\ fixtures'[k] = fixtures[k]
       /\ last'.call = "Add" =>
              IF \E k \in DOMAIN fixtures : SamePath(k, last'.segs)
              THEN last'.panicked /\ fixtures' = fixtures
              ELSE /\ ~last'.panicked
                   /\ \E k \in DOMAIN fixtures' :
                          /\ SamePath(k, last'.segs)
                          /\ DOMAIN fixtures' = (DOMAIN fixtures) \cup {k}
                          /\ fixtures'[k] = last'.data]_vars

\* an Add of two segments that panics while the set holds other content
\* for the path
C10_Witness ==
    /\ last.call = "Add"
    /\ last.panicked
    /\ Len(last.segs) = 2
    /\ fixtures[Join(<<CDir>> \o last.segs)] # last.data

----------------------------------------------------------------------------
(* C11 *)

\* C11: the fixtures made by c.GoldenFixtures() use c.Exclude: for a Config
\* with a custom Exclude, the files on disk that Diff and Test skip are
\* exactly those for which c.Exclude is true.
C11_SkipsWhatConfigExcludes ==
    [][(last'.call \in {"Diff", "Test"} /\ Diffed') =>
           \A p \in DOMAIN files :
               (p \notin DOMAIN last'.want) <=> Exclude(configExclude, p)]_vars

\* what holds instead: whatever c.Exclude is, the files skipped are the
\* dotfiles
C11_SkipsDotfiles ==
    [][(last'.call \in {"Diff", "Test"} /\ Diffed') =>
           \A p \in DOMAIN files :
               (p \notin DOMAIN last'.want) <=> Excluded(p)]_vars

----------------------------------------------------------------------------
(* C12 *)

\* the last call of FlagConfig by some goroutine was for n and has returned
Requested(n) ==
    \E g \in Goroutines :
        /\ callers[g].name = n
        /\ callers[g].pc = "idle"

\* C12: FlagConfig can be called again with the same name, by one goroutine
\* or by several at once: the flag is registered exactly once and the
\* process never aborts.
C12_FlagConfigRepeatable ==
    /\ ~aborted
    /\ \A n \in FlagNames : formal[n] <= 1
    /\ \A n \in FlagNames : Requested(n) => formal[n] = 1

\* what holds instead: a call for a name that is not registered when it
\* stores the flag, made while no other goroutine is in FlagConfig, registers
\* the name once and returns
C12_FirstCallRegisters ==
    [][\A g \in Goroutines :
           (/\ callers[g].pc = "var"
            /\ callers'[g].pc # "var"
            /\ formal[callers[g].name] = 0
            /\ \A h \in Goroutines \ {g} : callers[h].pc # "var")
               => /\ ~aborted'
                  /\ formal'[callers[g].name] = 1]_vars

\* what the code does on a call that finds the name registered: it aborts
C12_RepeatAborts ==
    [][\A g \in Goroutines :
           (/\ callers[g].pc = "var"
            /\ callers'[g].pc # "var"
            /\ callers[g].alreadythere)
               => aborted']_vars

----------------------------------------------------------------------------
(* C13 *)

\* the accesses to path of kind op in the log io
OpsAt(io, op, path) == {i \in 1..Len(io) : io[i].op = op /\ io[i].path = path}

\* the entries of diff that update writes into the directory dir
WrittenInto(diff, dir) ==
    {i \in 1..Len(diff) : diff[i].Kind # DiffUnexpected /\ DirOf(diff[i].Path) = dir}

\* update tried the entry d: one remove for an Unexpected entry; for a
\* Missing or Changed one a mkdir of its directory and, unless that failed,
\* one write
Attempted(d, diff, io) ==
    IF d.Kind = DiffUnexpected
    THEN Cardinality(OpsAt(io, "remove", d.Path)) = 1
    ELSE /\ Cardinality(OpsAt(io, "mkdir", DirOf(d.Path)))
                = Cardinality(WrittenInto(diff, DirOf(d.Path)))
         /\ Cardinality(OpsAt(io, "write", d.Path)) <= 1
         /\ \/ OpsAt(io, "write", d.Path) # {}
            \/ \E i \in OpsAt(io, "mkdir", DirOf(d.Path)) : ~io[i].ok

\* an operation of update for the entry d failed
Failed(d, io) ==
    IF d.Kind = DiffUnexpected
    THEN \E i \in OpsAt(io, "remove", d.Path) : ~io[i].ok
    ELSE \A i \in OpsAt(io, "write", d.Path) : ~io[i].ok

\* the entry d is on the disk F: an Unexpected file is gone, a Missing or
\* Changed one holds the bytes of the in-memory set fx
Applied(d, fx, F) ==
    IF d.Kind = DiffUnexpected THEN d.Path \notin DOMAIN F
    ELSE d.Path \in DOMAIN F /\ F[d.Path].data = fx[d.Path]

\* a line of the error names the failure of the entry d
Reported(d, msg) ==
    \E i \in 1..Len(msg) :
        IF d.Kind = DiffUnexpected
        THEN msg[i] = Msg("could not remove", d.Path)
        ELSE msg[i] \in {Msg("could not write", d.Path),
                         Msg("could not mkdir", DirOf(d.Path))}

\* C13: Test in update mode tries every entry of the diff, also after an
\* entry failed (a remove for Unexpected, a mkdir and then a write of the
\* in-memory bytes for Missing and Changed); every entry whose operations
\* succeed is applied; Test returns an error if and only if an entry failed,
\* and the error has one line for each failed entry.
C13_UpdateTriesEveryEntry ==
    [][(/\ last'.call = "Test"
        /\ UpdateMode(last'.flags)
        /\ last'.err # "failed to load golden fixtures") =>
           LET diff == last'.diff
               io == last'.io
               failed == {i \in 1..Len(diff) : Failed(diff[i], io)}
           IN  /\ \A i \in 1..Len(diff) : Attempted(diff[i], diff, io)
               /\ \A i \in (1..Len(diff)) \ failed : Applied(diff[i], fixtures, files')
               /\ (last'.err # "nil") <=> (failed # {})
               /\ Len(last'.msg) = Cardinality(failed)
               /\ \A i \in failed : Reported(diff[i], last'.msg)]_vars

\* an update whose first entry failed and whose second entry was written
C13_Witness ==
    /\ last.call = "Test"
    /\ UpdateMode(last.flags)
    /\ Len(last.diff) = 2
    /\ Failed(last.diff[1], last.io)
    /\ ~Failed(last.diff[2], last.io)
    /\ last.diff[2].Kind # DiffUnexpected
    /\ Applied(last.diff[2], fixtures, files)
    /\ last.err # "nil"
    /\ Len(last.msg) = 1

----------------------------------------------------------------------------
(* C14 *)

\* C14: with IgnoreUnexpected, Test in update mode removes nothing: every
\* file on disk that is not in the in-memory set stays on disk with its
\* content, and the only paths written are those that are Missing or Changed
\* between the in-memory set and the loaded one.
C14_IgnoreUnexpectedRemovesNothing ==
    [][(last'.call = "Test" /\ UpdateMode(last'.flags) /\ ignoreUnexpected) =>
           /\ \A i \in 1..Len(last'.io) : last'.io[i].op # "remove"
           /\ dirs \subseteq dirs'
           /\ DOMAIN files \subseteq DOMAIN files'
           /\ \A p \in (DOMAIN files) \ (DOMAIN fixtures) : files'[p] = files[p]
           /\ \A p \in DOMAIN files' :
                  (p \notin DOMAIN files \/ files'[p] # files[p]
                      \/ OpsAt(last'.io, "write", p) # {})
                      => KindOf(fixtures, last'.want, p) \in {DiffMissing, DiffChanged}]_vars

\* an update with IgnoreUnexpected that wrote a file and found on disk a
\* file, not excluded, that is not in the in-memory set
C14_Witness ==
    /\ last.call = "Test"
    /\ UpdateMode(last.flags)
    /\ ignoreUnexpected
    /\ last.err = "nil"
    /\ \E i \in 1..Len(last.io) : last.io[i].op = "write" /\ last.io[i].ok
    /\ CountKind(last.raw, DiffUnexpected) = 1
    /\ \E p \in (DOMAIN files) \ (DOMAIN fixtures) : p \in DOMAIN last.want

====
